---- MODULE Spec2Model ----
(***************************************************************************)
(* A model of gtop (src/gtop/__init__.py): the text decoders of the Slurm  *)
(* node-info and job feeds and the aggregation of job allocations onto the *)
(* node inventory.                                                         *)
(*                                                                         *)
(* A Python str is a sequence of characters, so that find, split, slicing, *)
(* int() and float() are computed character by character.  A character up *)
(* to U+00FF is the one-character string of itself; a character beyond is  *)
(* the string of its code point, "U+0663" for ARABIC-INDIC DIGIT THREE.    *)
(* A call that can raise returns [raised |-> BOOLEAN, value |-> ...].      *)
(* A Python float is an IEEE 754 binary64 value, with its arithmetic        *)
(* rounded to nearest, ties to even (see the float section).               *)
(***************************************************************************)
EXTENDS Integers, Sequences, FiniteSets, TLC

VARIABLES pc, arg, ret, gpu_only, output, servers, consumed, raised

vars == <<pc, arg, ret, gpu_only, output, servers, consumed, raised>>

(***************************************************************************)
(* Bounds of the checked inputs.                                           *)
(***************************************************************************)
MaxItems == 3

MaxGresItems == 3

MaxPairs == 3

MaxSinfoLines == 2

MaxJobLines == 2

(***************************************************************************)
(* Python str primitives.                                                  *)
(***************************************************************************)
DigitChars == <<"0", "1", "2", "3", "4", "5", "6", "7", "8", "9">>

\* the decimal digits of Unicode (str.isdecimal), the ten of each script in
\* the order of their values: the digits int() and float() read
DecimalRows ==
    << <<"0", "1", "2", "3", "4", "5", "6", "7", "8", "9">>,
       <<"U+0660", "U+0661", "U+0662", "U+0663", "U+0664", "U+0665", "U+0666", "U+0667", "U+0668", "U+0669">>,
       <<"U+06F0", "U+06F1", "U+06F2", "U+06F3", "U+06F4", "U+06F5", "U+06F6", "U+06F7", "U+06F8", "U+06F9">>,
       <<"U+07C0", "U+07C1", "U+07C2", "U+07C3", "U+07C4", "U+07C5", "U+07C6", "U+07C7", "U+07C8", "U+07C9">>,
       <<"U+0966", "U+0967", "U+0968", "U+0969", "U+096A", "U+096B", "U+096C", "U+096D", "U+096E", "U+096F">>,
       <<"U+09E6", "U+09E7", "U+09E8", "U+09E9", "U+09EA", "U+09EB", "U+09EC", "U+09ED", "U+09EE", "U+09EF">>,
       <<"U+0A66", "U+0A67", "U+0A68", "U+0A69", "U+0A6A", "U+0A6B", "U+0A6C", "U+0A6D", "U+0A6E", "U+0A6F">>,
       <<"U+0AE6", "U+0AE7", "U+0AE8", "U+0AE9", "U+0AEA", "U+0AEB", "U+0AEC", "U+0AED", "U+0AEE", "U+0AEF">>,
       <<"U+0B66", "U+0B67", "U+0B68", "U+0B69", "U+0B6A", "U+0B6B", "U+0B6C", "U+0B6D", "U+0B6E", "U+0B6F">>,
       <<"U+0BE6", "U+0BE7", "U+0BE8", "U+0BE9", "U+0BEA", "U+0BEB", "U+0BEC", "U+0BED", "U+0BEE", "U+0BEF">>,
       <<"U+0C66", "U+0C67", "U+0C68", "U+0C69", "U+0C6A", "U+0C6B", "U+0C6C", "U+0C6D", "U+0C6E", "U+0C6F">>,
       <<"U+0CE6", "U+0CE7", "U+0CE8", "U+0CE9", "U+0CEA", "U+0CEB", "U+0CEC", "U+0CED", "U+0CEE", "U+0CEF">>,
       <<"U+0D66", "U+0D67", "U+0D68", "U+0D69", "U+0D6A", "U+0D6B", "U+0D6C", "U+0D6D", "U+0D6E", "U+0D6F">>,
       <<"U+0DE6", "U+0DE7", "U+0DE8", "U+0DE9", "U+0DEA", "U+0DEB", "U+0DEC", "U+0DED", "U+0DEE", "U+0DEF">>,
       <<"U+0E50", "U+0E51", "U+0E52", "U+0E53", "U+0E54", "U+0E55", "U+0E56", "U+0E57", "U+0E58", "U+0E59">>,
       <<"U+0ED0", "U+0ED1", "U+0ED2", "U+0ED3", "U+0ED4", "U+0ED5", "U+0ED6", "U+0ED7", "U+0ED8", "U+0ED9">>,
       <<"U+0F20", "U+0F21", "U+0F22", "U+0F23", "U+0F24", "U+0F25", "U+0F26", "U+0F27", "U+0F28", "U+0F29">>,
       <<"U+1040", "U+1041", "U+1042", "U+1043", "U+1044", "U+1045", "U+1046", "U+1047", "U+1048", "U+1049">>,
       <<"U+1090", "U+1091", "U+1092", "U+1093", "U+1094", "U+1095", "U+1096", "U+1097", "U+1098", "U+1099">>,
       <<"U+17E0", "U+17E1", "U+17E2", "U+17E3", "U+17E4", "U+17E5", "U+17E6", "U+17E7", "U+17E8", "U+17E9">>,
       <<"U+1810", "U+1811", "U+1812", "U+1813", "U+1814", "U+1815", "U+1816", "U+1817", "U+1818", "U+1819">>,
       <<"U+1946", "U+1947", "U+1948", "U+1949", "U+194A", "U+194B", "U+194C", "U+194D", "U+194E", "U+194F">>,
       <<"U+19D0", "U+19D1", "U+19D2", "U+19D3", "U+19D4", "U+19D5", "U+19D6", "U+19D7", "U+19D8", "U+19D9">>,
       <<"U+1A80", "U+1A81", "U+1A82", "U+1A83", "U+1A84", "U+1A85", "U+1A86", "U+1A87", "U+1A88", "U+1A89">>,
       <<"U+1A90", "U+1A91", "U+1A92", "U+1A93", "U+1A94", "U+1A95", "U+1A96", "U+1A97", "U+1A98", "U+1A99">>,
       <<"U+1B50", "U+1B51", "U+1B52", "U+1B53", "U+1B54", "U+1B55", "U+1B56", "U+1B57", "U+1B58", "U+1B59">>,
       <<"U+1BB0", "U+1BB1", "U+1BB2", "U+1BB3", "U+1BB4", "U+1BB5", "U+1BB6", "U+1BB7", "U+1BB8", "U+1BB9">>,
       <<"U+1C40", "U+1C41", "U+1C42", "U+1C43", "U+1C44", "U+1C45", "U+1C46", "U+1C47", "U+1C48", "U+1C49">>,
       <<"U+1C50", "U+1C51", "U+1C52", "U+1C53", "U+1C54", "U+1C55", "U+1C56", "U+1C57", "U+1C58", "U+1C59">>,
       <<"U+A620", "U+A621", "U+A622", "U+A623", "U+A624", "U+A625", "U+A626", "U+A627", "U+A628", "U+A629">>,
       <<"U+A8D0", "U+A8D1", "U+A8D2", "U+A8D3", "U+A8D4", "U+A8D5", "U+A8D6", "U+A8D7", "U+A8D8", "U+A8D9">>,
       <<"U+A900", "U+A901", "U+A902", "U+A903", "U+A904", "U+A905", "U+A906", "U+A907", "U+A908", "U+A909">>,
       <<"U+A9D0", "U+A9D1", "U+A9D2", "U+A9D3", "U+A9D4", "U+A9D5", "U+A9D6", "U+A9D7", "U+A9D8", "U+A9D9">>,
       <<"U+A9F0", "U+A9F1", "U+A9F2", "U+A9F3", "U+A9F4", "U+A9F5", "U+A9F6", "U+A9F7", "U+A9F8", "U+A9F9">>,
       <<"U+AA50", "U+AA51", "U+AA52", "U+AA53", "U+AA54", "U+AA55", "U+AA56", "U+AA57", "U+AA58", "U+AA59">>,
       <<"U+ABF0", "U+ABF1", "U+ABF2", "U+ABF3", "U+ABF4", "U+ABF5", "U+ABF6", "U+ABF7", "U+ABF8", "U+ABF9">>,
       <<"U+FF10", "U+FF11", "U+FF12", "U+FF13", "U+FF14", "U+FF15", "U+FF16", "U+FF17", "U+FF18", "U+FF19">>,
       <<"U+104A0", "U+104A1", "U+104A2", "U+104A3", "U+104A4", "U+104A5", "U+104A6", "U+104A7", "U+104A8", "U+104A9">>,
       <<"U+10D30", "U+10D31", "U+10D32", "U+10D33", "U+10D34", "U+10D35", "U+10D36", "U+10D37", "U+10D38", "U+10D39">>,
       <<"U+11066", "U+11067", "U+11068", "U+11069", "U+1106A", "U+1106B", "U+1106C", "U+1106D", "U+1106E", "U+1106F">>,
       <<"U+110F0", "U+110F1", "U+110F2", "U+110F3", "U+110F4", "U+110F5", "U+110F6", "U+110F7", "U+110F8", "U+110F9">>,
       <<"U+11136", "U+11137", "U+11138", "U+11139", "U+1113A", "U+1113B", "U+1113C", "U+1113D", "U+1113E", "U+1113F">>,
       <<"U+111D0", "U+111D1", "U+111D2", "U+111D3", "U+111D4", "U+111D5", "U+111D6", "U+111D7", "U+111D8", "U+111D9">>,
       <<"U+112F0", "U+112F1", "U+112F2", "U+112F3", "U+112F4", "U+112F5", "U+112F6", "U+112F7", "U+112F8", "U+112F9">>,
       <<"U+11450", "U+11451", "U+11452", "U+11453", "U+11454", "U+11455", "U+11456", "U+11457", "U+11458", "U+11459">>,
       <<"U+114D0", "U+114D1", "U+114D2", "U+114D3", "U+114D4", "U+114D5", "U+114D6", "U+114D7", "U+114D8", "U+114D9">>,
       <<"U+11650", "U+11651", "U+11652", "U+11653", "U+11654", "U+11655", "U+11656", "U+11657", "U+11658", "U+11659">>,
       <<"U+116C0", "U+116C1", "U+116C2", "U+116C3", "U+116C4", "U+116C5", "U+116C6", "U+116C7", "U+116C8", "U+116C9">>,
       <<"U+11730", "U+11731", "U+11732", "U+11733", "U+11734", "U+11735", "U+11736", "U+11737", "U+11738", "U+11739">>,
       <<"U+118E0", "U+118E1", "U+118E2", "U+118E3", "U+118E4", "U+118E5", "U+118E6", "U+118E7", "U+118E8", "U+118E9">>,
       <<"U+11950", "U+11951", "U+11952", "U+11953", "U+11954", "U+11955", "U+11956", "U+11957", "U+11958", "U+11959">>,
       <<"U+11C50", "U+11C51", "U+11C52", "U+11C53", "U+11C54", "U+11C55", "U+11C56", "U+11C57", "U+11C58", "U+11C59">>,
       <<"U+11D50", "U+11D51", "U+11D52", "U+11D53", "U+11D54", "U+11D55", "U+11D56", "U+11D57", "U+11D58", "U+11D59">>,
       <<"U+11DA0", "U+11DA1", "U+11DA2", "U+11DA3", "U+11DA4", "U+11DA5", "U+11DA6", "U+11DA7", "U+11DA8", "U+11DA9">>,
       <<"U+16A60", "U+16A61", "U+16A62", "U+16A63", "U+16A64", "U+16A65", "U+16A66", "U+16A67", "U+16A68", "U+16A69">>,
       <<"U+16AC0", "U+16AC1", "U+16AC2", "U+16AC3", "U+16AC4", "U+16AC5", "U+16AC6", "U+16AC7", "U+16AC8", "U+16AC9">>,
       <<"U+16B50", "U+16B51", "U+16B52", "U+16B53", "U+16B54", "U+16B55", "U+16B56", "U+16B57", "U+16B58", "U+16B59">>,
       <<"U+1D7CE", "U+1D7CF", "U+1D7D0", "U+1D7D1", "U+1D7D2", "U+1D7D3", "U+1D7D4", "U+1D7D5", "U+1D7D6", "U+1D7D7">>,
       <<"U+1D7D8", "U+1D7D9", "U+1D7DA", "U+1D7DB", "U+1D7DC", "U+1D7DD", "U+1D7DE", "U+1D7DF", "U+1D7E0", "U+1D7E1">>,
       <<"U+1D7E2", "U+1D7E3", "U+1D7E4", "U+1D7E5", "U+1D7E6", "U+1D7E7", "U+1D7E8", "U+1D7E9", "U+1D7EA", "U+1D7EB">>,
       <<"U+1D7EC", "U+1D7ED", "U+1D7EE", "U+1D7EF", "U+1D7F0", "U+1D7F1", "U+1D7F2", "U+1D7F3", "U+1D7F4", "U+1D7F5">>,
       <<"U+1D7F6", "U+1D7F7", "U+1D7F8", "U+1D7F9", "U+1D7FA", "U+1D7FB", "U+1D7FC", "U+1D7FD", "U+1D7FE", "U+1D7FF">>,
       <<"U+1E140", "U+1E141", "U+1E142", "U+1E143", "U+1E144", "U+1E145", "U+1E146", "U+1E147", "U+1E148", "U+1E149">>,
       <<"U+1E2F0", "U+1E2F1", "U+1E2F2", "U+1E2F3", "U+1E2F4", "U+1E2F5", "U+1E2F6", "U+1E2F7", "U+1E2F8", "U+1E2F9">>,
       <<"U+1E950", "U+1E951", "U+1E952", "U+1E953", "U+1E954", "U+1E955", "U+1E956", "U+1E957", "U+1E958", "U+1E959">>,
       <<"U+1FBF0", "U+1FBF1", "U+1FBF2", "U+1FBF3", "U+1FBF4", "U+1FBF5", "U+1FBF6", "U+1FBF7", "U+1FBF8", "U+1FBF9">> >>

DecimalChars == UNION {{DecimalRows[i][k] : k \in 1..10} : i \in 1..Len(DecimalRows)}

\* the characters c with c.isdigit() that are no decimal digits (superscripts,
\* circled digits, ...): int() and float() reject them
OtherDigitChars ==
    { "²", "³", "¹", "U+1369", "U+136A", "U+136B", "U+136C", "U+136D", "U+136E", "U+136F",
      "U+1370", "U+1371", "U+19DA", "U+2070", "U+2074", "U+2075", "U+2076", "U+2077",
      "U+2078", "U+2079", "U+2080", "U+2081", "U+2082", "U+2083", "U+2084", "U+2085",
      "U+2086", "U+2087", "U+2088", "U+2089", "U+2460", "U+2461", "U+2462", "U+2463",
      "U+2464", "U+2465", "U+2466", "U+2467", "U+2468", "U+2474", "U+2475", "U+2476",
      "U+2477", "U+2478", "U+2479", "U+247A", "U+247B", "U+247C", "U+2488", "U+2489",
      "U+248A", "U+248B", "U+248C", "U+248D", "U+248E", "U+248F", "U+2490", "U+24EA",
      "U+24F5", "U+24F6", "U+24F7", "U+24F8", "U+24F9", "U+24FA", "U+24FB", "U+24FC",
      "U+24FD", "U+24FF", "U+2776", "U+2777", "U+2778", "U+2779", "U+277A", "U+277B",
      "U+277C", "U+277D", "U+277E", "U+2780", "U+2781", "U+2782", "U+2783", "U+2784",
      "U+2785", "U+2786", "U+2787", "U+2788", "U+278A", "U+278B", "U+278C", "U+278D",
      "U+278E", "U+278F", "U+2790", "U+2791", "U+2792", "U+10A40", "U+10A41", "U+10A42",
      "U+10A43", "U+10E60", "U+10E61", "U+10E62", "U+10E63", "U+10E64", "U+10E65",
      "U+10E66", "U+10E67", "U+10E68", "U+11052", "U+11053", "U+11054", "U+11055",
      "U+11056", "U+11057", "U+11058", "U+11059", "U+1105A", "U+1F100", "U+1F101",
      "U+1F102", "U+1F103", "U+1F104", "U+1F105", "U+1F106", "U+1F107", "U+1F108",
      "U+1F109", "U+1F10A" }

\* the characters c with c.isdigit()
Digits == DecimalChars \cup OtherDigitChars

\* the row of a decimal digit, and its value
DecimalRowOf(c) == CHOOSE i \in 1..Len(DecimalRows) : \E k \in 1..10 : DecimalRows[i][k] = c

DigitVal(c) == (CHOOSE k \in 1..10 : DecimalRows[DecimalRowOf(c)][k] = c) - 1

Min(a, b) == IF a < b THEN a ELSE b

\* s[a:b] for 0 <= a, 0 <= b
Slice(s, a, b) ==
    LET hi == Min(b, Len(s))
    IN IF a >= hi THEN <<>> ELSE SubSeq(s, a + 1, hi)

\* s[a:]
SliceFrom(s, a) == Slice(s, a, Len(s))

\* s.startswith(prefix)
StartsWith(s, prefix) ==
    /\ Len(prefix) <= Len(s)
    /\ SubSeq(s, 1, Len(prefix)) = prefix

\* s.find(sub): the lowest 0-based index where sub occurs, or -1
Find(s, sub) ==
    LET hits == {i \in 0..(Len(s) - Len(sub)) : Slice(s, i, i + Len(sub)) = sub}
    IN IF hits = {} THEN -1 ELSE CHOOSE i \in hits : \A j \in hits : i <= j

\* sub in s
Contains(s, sub) == Find(s, sub) # -1

\* the 1-based positions of the character sep in s, with 0 and Len(s) + 1
\* standing for the two ends
Cuts(s, sep) == {0, Len(s) + 1} \cup {i \in 1..Len(s) : s[i] = sep}

\* the k-th smallest element of a set of integers, k from 1
Kth(P, k) == CHOOSE p \in P : Cardinality({q \in P : q < p}) = k - 1

\* s.split(sep) for a one-character separator: the pieces between
\* consecutive separators, empty pieces kept
SplitAt(s, sep, P) ==
    [k \in 1..(Cardinality(P) - 1) |-> SubSeq(s, Kth(P, k) + 1, Kth(P, k + 1) - 1)]

Split(s, sep) == CHOOSE r \in {SplitAt(s, sep, P) : P \in {Cuts(s, sep)}} : TRUE

\* sep.join(parts[k:]) for 0 <= k, with parts[k + 1] the first piece in TLA+
RECURSIVE JoinFrom(_, _, _)
JoinFrom(parts, sep, k) ==
    IF k > Len(parts) THEN <<>>
    ELSE IF k = Len(parts) THEN parts[k]
    ELSE parts[k] \o sep \o JoinFrom(parts, sep, k + 1)

\* sep.join(parts)
Join(parts, sep) == JoinFrom(parts, sep, 1)

\* s.isdigit(): non-empty and every character a digit
IsDigit(s) == s # <<>> /\ \A i \in 1..Len(s) : s[i] \in Digits

\* the value of the first k characters of a string of decimal digits
RECURSIVE DigitsValueTo(_, _)
DigitsValueTo(s, k) ==
    IF k = 0 THEN 0 ELSE 10 * DigitsValueTo(s, k - 1) + DigitVal(s[k])

\* the value of a string of decimal digits (0 for the empty string)
DigitsValue(s) == DigitsValueTo(s, Len(s))

\* the characters c with c.isspace(): the blanks of str.split() and str.strip()
Whitespace ==
    { "\t", "\n", "", "\f", "\r", "", "", "", "", " ", "", " ", "U+1680", "U+2000",
      "U+2001", "U+2002", "U+2003", "U+2004", "U+2005", "U+2006", "U+2007", "U+2008",
      "U+2009", "U+200A", "U+2028", "U+2029", "U+202F", "U+205F", "U+3000" }

\* the blanks int() and float() ignore around a literal: those of Whitespace
\* but the separators U+001C to U+001F
NumberBlanks == Whitespace \ {"", "", "", ""}

SetMax(S) == CHOOSE x \in S : \A y \in S : y <= x

SetMin(S) == CHOOSE x \in S : \A y \in S : x <= y

\* s without the blanks int() and float() ignore at its two ends
Strip(s) ==
    CHOOSE r \in {IF ink = {} THEN <<>> ELSE SubSeq(s, SetMin(ink), SetMax(ink)) :
                     ink \in {{i \in 1..Len(s) : s[i] \notin NumberBlanks}}} : TRUE

UpperChars ==
    <<"A", "B", "C", "D", "E", "F", "G", "H", "I", "J", "K", "L", "M",
      "N", "O", "P", "Q", "R", "S", "T", "U", "V", "W", "X", "Y", "Z">>

LowerChars ==
    <<"a", "b", "c", "d", "e", "f", "g", "h", "i", "j", "k", "l", "m",
      "n", "o", "p", "q", "r", "s", "t", "u", "v", "w", "x", "y", "z">>

\* float() matches inf, infinity and nan without regard to the case of the
\* ASCII letters: A to Z in lower case, any other character as it is
AsciiLowerChar(c) ==
    IF \E i \in 1..26 : UpperChars[i] = c
    THEN LowerChars[CHOOSE i \in 1..26 : UpperChars[i] = c] ELSE c

AsciiLower(s) == [i \in 1..Len(s) |-> AsciiLowerChar(s[i])]

\* the digit part of an int or float literal: decimal digits, with single
\* underscores allowed between two digits
IsDigitPart(t) ==
    /\ t # <<>>
    /\ \A i \in 1..Len(t) :
          \/ t[i] \in DecimalChars
          \/ /\ t[i] = "_"
             /\ 1 < i
             /\ i < Len(t)
             /\ t[i - 1] \in DecimalChars
             /\ t[i + 1] \in DecimalChars

\* c.isdigit()
IsDigitChar(c) == c \in Digits

IsDecimalChar(c) == c \in DecimalChars

\* a digit part without its underscores
NoUnderscores(t) == SelectSeq(t, IsDecimalChar)

\* the sign of a literal, and the literal without it
Negative(t) == t # <<>> /\ t[1] = "-"

Unsigned(t) == IF t # <<>> /\ t[1] \in {"+", "-"} THEN Tail(t) ELSE t

\* int(s): blanks around, a sign, then a digit part; ValueError otherwise
ParseInt(s) ==
    CHOOSE r \in
        {IF IsDigitPart(Unsigned(t))
         THEN [raised |-> FALSE,
               value |-> (IF Negative(t) THEN -1 ELSE 1) * DigitsValue(NoUnderscores(Unsigned(t)))]
         ELSE [raised |-> TRUE, value |-> 0] :
            t \in {Strip(s)}} : TRUE

\* str(x) for x >= 0
RECURSIVE ToStr(_)
ToStr(x) ==
    IF x < 10 THEN <<DigitChars[x + 1]>>
    ELSE ToStr(x \div 10) \o <<DigitChars[(x % 10) + 1]>>

\* f"{x:02d}": the sign counts toward the width of 2
Fmt02d(x) ==
    IF x < 0 THEN <<"-">> \o ToStr(0 - x)
    ELSE IF x < 10 THEN <<"0">> \o ToStr(x)
    ELSE ToStr(x)

(***************************************************************************)
(* is_priority, expand_range, parse_nodelist                               *)
(***************************************************************************)
is_priority_default_only(name) == ~Contains(name, <<"d", "e", "f", "a", "u", "l", "t">>)

is_priority(name) ==
    ~(Contains(name, <<"d", "e", "f", "a", "u", "l", "t">>) \/ Contains(name, <<"g", "p", "u">>))

\* [f"{x:02d}" for x in range(lo, hi + 1)]
FmtRange(lo, hi) == IF hi < lo THEN <<>> ELSE [k \in 1..(hi - lo + 1) |-> Fmt02d(lo + k - 1)]

expand_range(s) ==
    IF Contains(s, <<"-">>)
    THEN LET parts == Split(s, "-")
             \* start, end = map(int, ...): ValueError unless exactly two ints
             bad == \/ Len(parts) # 2
                    \/ \E i \in 1..Len(parts) : ParseInt(parts[i]).raised
         IN IF bad THEN [raised |-> TRUE, value |-> <<>>]
            ELSE [raised |-> FALSE,
                  value |-> FmtRange(ParseInt(parts[1]).value, ParseInt(parts[2]).value)]
    ELSE [raised |-> FALSE, value |-> <<s>>]

\* The first loop of parse_nodelist: cut at the commas met at bracket depth 0.
RECURSIVE SplitTop(_, _, _, _)
SplitTop(nodelist, i, depth, start) ==
    IF i >= Len(nodelist) THEN <<SliceFrom(nodelist, start)>>
    ELSE LET char == nodelist[i + 1]
         IN IF char = "[" THEN SplitTop(nodelist, i + 1, depth + 1, start)
            ELSE IF char = "]" THEN SplitTop(nodelist, i + 1, depth - 1, start)
            ELSE IF char = "," /\ depth = 0
                 THEN <<Slice(nodelist, start, i)>> \o SplitTop(nodelist, i + 1, depth, i + 1)
            ELSE SplitTop(nodelist, i + 1, depth, start)

SplitTopAnyDepth(nodelist) == Split(nodelist, ",")

SplitTopLevel(nodelist) == SplitTop(nodelist, 0, 0, 0)

\* base + suffix for suffix in expand_range(r), for the sub-specs from position k on
RECURSIVE Suffixed(_, _, _)
Suffixed(base, subs, k) ==
    IF k > Len(subs) THEN <<>>
    ELSE [i \in 1..Len(expand_range(subs[k]).value) |-> base \o expand_range(subs[k]).value[i]]
             \o Suffixed(base, subs, k + 1)

\* for r in ranges.split(","): for suffix in expand_range(r): result.append(base + suffix)
ExpandSubs(base, subs) ==
    IF \E k \in 1..Len(subs) : expand_range(subs[k]).raised
    THEN [raised |-> TRUE, value |-> <<>>]
    ELSE [raised |-> FALSE, value |-> Suffixed(base, subs, 1)]

\* The body of the second loop of parse_nodelist for one top-level segment.
ExpandNode(node) ==
    IF Contains(node, <<"[">>) /\ Contains(node, <<"]">>)
    THEN LET base == Slice(node, 0, Find(node, <<"[">>))
             ranges == Slice(node, Find(node, <<"[">>) + 1, Find(node, <<"]">>))
         IN ExpandSubs(base, Split(ranges, ","))
    ELSE [raised |-> FALSE, value |-> <<node>>]

\* the hostnames appended for the segments from position k on
RECURSIVE Expanded(_, _)
Expanded(nodes, k) ==
    IF k > Len(nodes) THEN <<>> ELSE ExpandNode(nodes[k]).value \o Expanded(nodes, k + 1)

\* the second loop of parse_nodelist over the top-level segments
ExpandNodes(nodes) ==
    IF \E k \in 1..Len(nodes) : ExpandNode(nodes[k]).raised
    THEN [raised |-> TRUE, value |-> <<>>]
    ELSE [raised |-> FALSE, value |-> Expanded(nodes, 1)]

parse_nodelist(nodelist) ==
    CHOOSE r \in {ExpandNodes(nodes) : nodes \in {SplitTopLevel(nodelist)}} : TRUE

(***************************************************************************)
(* Node-list inputs: HostRange expressions of at most MaxItems items (bare  *)
(* names and bracketed sub-specs), well-formed and malformed.              *)
(***************************************************************************)
ValidSubSpecs ==
    { <<"5">>, <<"0", "7">>,
      <<"1", "-", "2">>, <<"0", "8", "-", "1", "0">>, <<"0", "0", "1", "-", "0", "0", "2">> }

\* a range that runs backwards, a signed bound, a bound that is no number,
\* a second "-"
BadSubSpecs ==
    { <<"0", "3", "-", "0", "1">>, <<"+", "1", "-", "2">>, <<"a", "-", "b">>,
      <<"1", "-", "2", "-", "3">> }

SubSpecs == ValidSubSpecs \cup BadSubSpecs

BareNames == { <<"n", "o", "d", "e", "A">>, <<>> }

Bases == { <<"n">> }

RECURSIVE Contents(_)
Contents(j) ==
    IF j = 1 THEN SubSpecs
    ELSE {c \o <<",">> \o s : c \in Contents(j - 1), s \in SubSpecs}

SegsOfSize(j) ==
    {b \o <<"[">> \o c \o <<"]">> : b \in Bases, c \in Contents(j)}
        \cup (IF j = 1 THEN BareNames ELSE {})

RECURSIVE ExprsOfSize(_)
ExprsOfSize(k) ==
    SegsOfSize(k) \cup
    UNION {{e \o <<",">> \o s : e \in ExprsOfSize(k - j), s \in SegsOfSize(j)} : j \in 1..(k - 1)}

NodelistInputs == UNION {ExprsOfSize(k) : k \in 1..MaxItems}

NoServers == [h \in {} |-> 0]

NoRet == [raised |-> FALSE, value |-> <<>>]

InitNodelist ==
    /\ pc = "call"
    /\ arg \in NodelistInputs
    /\ ret = NoRet
    /\ gpu_only = FALSE
    /\ output = <<>>
    /\ servers = NoServers
    /\ consumed = <<>>
    /\ raised = FALSE

CallParseNodelist ==
    /\ pc = "call"
    /\ ret' = parse_nodelist(arg)
    /\ pc' = "returned"
    /\ UNCHANGED <<arg, gpu_only, output, servers, consumed, raised>>

SpecNodelist == InitNodelist /\ [][CallParseNodelist]_vars

(***************************************************************************)
(* parse_gpu, parse_cpu, parse_mem                                         *)
(***************************************************************************)
NullText == <<"n", "u", "l", "l">>

\* ''.join(c for c in num_str if c.isdigit())
DigitsOnly(s) == SelectSeq(s, IsDigitChar)

\* the item counts toward the GPUs: len(parts) >= 3 and parts[0].startswith("gpu")
IsGpuItem(item) ==
    /\ Len(Split(item, ":")) >= 3
    /\ StartsWith(Split(item, ":")[1], <<"g", "p", "u">>)

\* what the loop over gres.split(",") appends to types from item k on
RECURSIVE GpuTypesFrom(_, _)
GpuTypesFrom(items, k) ==
    IF k > Len(items) THEN <<>>
    ELSE (IF IsGpuItem(items[k]) THEN <<Split(items[k], ":")[2]>> ELSE <<>>)
             \o GpuTypesFrom(items, k + 1)

GpuTypes(items) == GpuTypesFrom(items, 1)

\* int(''.join(c for c in num_str if c.isdigit()) or 0): ValueError when a
\* digit kept is no decimal digit
GpuCount(num_str) ==
    CHOOSE r \in {IF ds = <<>> THEN [raised |-> FALSE, value |-> 0] ELSE ParseInt(ds) :
                     ds \in {DigitsOnly(num_str)}} : TRUE

\* what the loop adds to total from item k on
RECURSIVE GpuTotalFrom(_, _)
GpuTotalFrom(items, k) ==
    IF k > Len(items) THEN 0
    ELSE (IF IsGpuItem(items[k]) THEN GpuCount(Split(items[k], ":")[3]).value ELSE 0)
             + GpuTotalFrom(items, k + 1)

\* int() raises on an item of the loop
GpuRaises(items) ==
    \E k \in 1..Len(items) : IsGpuItem(items[k]) /\ GpuCount(Split(items[k], ":")[3]).raised

GpuTotal(items) == GpuTotalFrom(items, 1)

\* the returned dict, from the types list and the total
GpuResult(types, total) ==
    [type |-> IF Len(types) > 1 THEN <<"(">> \o Join(types, <<"|">>) \o <<")">>
              ELSE IF types # <<>> THEN types[1] ELSE NullText,
     num |-> total]

NoGpu == [type |-> NullText, num |-> 0]

parse_gpu(gres) ==
    IF Contains(gres, NullText) THEN [raised |-> FALSE, value |-> NoGpu]
    ELSE CHOOSE r \in {IF GpuRaises(items) THEN [raised |-> TRUE, value |-> NoGpu]
                       ELSE [raised |-> FALSE,
                             value |-> GpuResult(GpuTypes(items), GpuTotal(items))] :
                           items \in {Split(gres, ",")}} : TRUE

\* int(text) if text.isdigit() else 0: ValueError when a digit of the text is
\* no decimal digit
IntIfDigit(text) == IF IsDigit(text) THEN ParseInt(text) ELSE [raised |-> FALSE, value |-> 0]

parse_cpu(cpu_state) ==
    CHOOSE r \in
        {CHOOSE c \in {[raised |-> idle.raised, value |-> [idle |-> idle.value]] :
                          idle \in {IF Len(parts) > 1 THEN IntIfDigit(parts[2])
                                    ELSE [raised |-> FALSE, value |-> 0]}} : TRUE :
            parts \in {Split(cpu_state, "/")}} : TRUE

parse_mem(alloc_mem, total_mem) ==
    CHOOSE r \in
        {[raised |-> alloc.raised \/ total.raised,
          value |-> [idle |-> total.value - alloc.value, total |-> total.value]] :
            alloc \in {IntIfDigit(alloc_mem)}, total \in {IntIfDigit(total_mem)}} : TRUE

(***************************************************************************)
(* Python float: IEEE 754 binary64, round to nearest, ties to even.        *)
(*                                                                         *)
(* A natural number of any size is the little-endian sequence of its       *)
(* digits in base 2^12, without high zero digits (<<>> is 0).  A float is  *)
(* [kind, neg, man, exp]: kind "finite" stands for (-1)^neg * man * 2^exp  *)
(* with man odd, or man = 0 and exp = 0, so that equal finite floats of    *)
(* one sign are equal records; kind "inf" and "nan" carry man = 0.         *)
(***************************************************************************)
Base == 2^12

Max(a, b) == IF a > b THEN a ELSE b

\* a without its high zero digits
NatNorm(a) ==
    CHOOSE r \in {IF nz = {} THEN <<>> ELSE SubSeq(a, 1, SetMax(nz)) :
                     nz \in {{i \in 1..Len(a) : a[i] # 0}}} : TRUE

\* 0 <= x < 2^31
NatFromInt(x) == NatNorm(<<x % Base, (x \div Base) % Base, x \div (Base * Base)>>)

NatOne == <<1>>

\* the digit of weight Base^(k-1), 0 beyond the length
Limb(a, k) == IF k <= Len(a) THEN a[k] ELSE 0

\* The operators below walk the digits lo..hi of their arguments by halves:
\* the first half, then the second with the carry of the first.

\* the digits lo..hi of a * m + carry * Base^(lo-1), and the carry out, for
\* 0 <= m, carry <= 2^18
RECURSIVE NatMulRange(_, _, _, _, _)
NatMulRange(a, m, lo, hi, carry) ==
    IF lo > hi THEN [d |-> <<>>, c |-> carry]
    ELSE IF lo = hi
         THEN [d |-> <<(a[lo] * m + carry) % Base>>, c |-> (a[lo] * m + carry) \div Base]
    ELSE CHOOSE res \in
            UNION {{[d |-> left.d \o right.d, c |-> right.c] :
                       right \in {NatMulRange(a, m, ((lo + hi) \div 2) + 1, hi, left.c)}} :
                      left \in {NatMulRange(a, m, lo, (lo + hi) \div 2, carry)}} : TRUE

\* a * m + c
NatMulAdd(a, m, c) ==
    CHOOSE r \in {NatNorm(p.d \o NatFromInt(p.c)) :
                     p \in UNION {{NatMulRange(av, m, 1, Len(av), c)} : av \in {a}}} : TRUE

NatMulSmall(a, m) == NatMulAdd(a, m, 0)

\* the quotient digits lo..hi and the remainder of the division by n of the
\* digits from lo up, with rem the remainder of the digits above hi, for
\* 0 < n <= 2^18
RECURSIVE NatDivRange(_, _, _, _, _)
NatDivRange(a, n, lo, hi, rem) ==
    IF lo > hi THEN [q |-> <<>>, r |-> rem]
    ELSE IF lo = hi
         THEN [q |-> <<(rem * Base + a[lo]) \div n>>, r |-> (rem * Base + a[lo]) % n]
    ELSE CHOOSE res \in
            UNION {{[q |-> low.q \o high.q, r |-> low.r] :
                       low \in {NatDivRange(a, n, lo, (lo + hi) \div 2, high.r)}} :
                      high \in {NatDivRange(a, n, ((lo + hi) \div 2) + 1, hi, rem)}} : TRUE

\* [q |-> a \div n, r |-> a % n]
NatDivSmall(a, n) ==
    CHOOSE res \in {[q |-> NatNorm(d.q), r |-> d.r] :
                       d \in UNION {{NatDivRange(av, n, 1, Len(av), 0)} : av \in {a}}} : TRUE

\* the digits lo..hi of a + b + carry * Base^(lo-1), and the carry out
RECURSIVE NatAddRange(_, _, _, _, _)
NatAddRange(a, b, lo, hi, carry) ==
    IF lo > hi THEN [d |-> <<>>, c |-> carry]
    ELSE IF lo = hi
         THEN [d |-> <<(Limb(a, lo) + Limb(b, lo) + carry) % Base>>,
               c |-> (Limb(a, lo) + Limb(b, lo) + carry) \div Base]
    ELSE CHOOSE res \in
            UNION {{[d |-> left.d \o right.d, c |-> right.c] :
                       right \in {NatAddRange(a, b, ((lo + hi) \div 2) + 1, hi, left.c)}} :
                      left \in {NatAddRange(a, b, lo, (lo + hi) \div 2, carry)}} : TRUE

NatAdd(a, b) ==
    CHOOSE r \in
        UNION {{NatNorm(p.d \o <<p.c>>) : p \in {NatAddRange(av, bv, 1, Max(Len(av), Len(bv)), 0)}} :
                  av \in {a}, bv \in {b}} : TRUE

\* the digits lo..hi of a - b - borrow * Base^(lo-1), and the borrow out
RECURSIVE NatSubRange(_, _, _, _, _)
NatSubRange(a, b, lo, hi, borrow) ==
    IF lo > hi THEN [d |-> <<>>, c |-> borrow]
    ELSE IF lo = hi
         THEN [d |-> <<(a[lo] - Limb(b, lo) - borrow + Base) % Base>>,
               c |-> IF a[lo] - Limb(b, lo) - borrow < 0 THEN 1 ELSE 0]
    ELSE CHOOSE res \in
            UNION {{[d |-> left.d \o right.d, c |-> right.c] :
                       right \in {NatSubRange(a, b, ((lo + hi) \div 2) + 1, hi, left.c)}} :
                      left \in {NatSubRange(a, b, lo, (lo + hi) \div 2, borrow)}} : TRUE

\* a - b for a >= b
NatSub(a, b) ==
    CHOOSE r \in {NatNorm(NatSubRange(av, bv, 1, Len(av), 0).d) : av \in {a}, bv \in {b}} : TRUE

\* -1, 0, 1 as a < b, a = b, a > b
NatCmp(a, b) ==
    CHOOSE r \in
        {IF Len(av) # Len(bv) THEN (IF Len(av) < Len(bv) THEN -1 ELSE 1)
         ELSE CHOOSE c \in
                 {IF diff = {} THEN 0
                  ELSE IF av[SetMax(diff)] < bv[SetMax(diff)] THEN -1 ELSE 1 :
                     diff \in {{i \in 1..Len(av) : av[i] # bv[i]}}} : TRUE :
            av \in {a}, bv \in {b}} : TRUE

\* the number of binary digits of 0 <= x < 2^31
IntBitLen(x) ==
    IF x = 0 THEN 0 ELSE CHOOSE k \in 1..31 : 2^(k - 1) <= x /\ (k = 31 \/ x < 2^k)

NatBitLen(a) ==
    CHOOSE r \in {IF av = <<>> THEN 0 ELSE (Len(av) - 1) * 12 + IntBitLen(av[Len(av)]) :
                     av \in {a}} : TRUE

\* a * 2^k
NatShl(a, k) ==
    CHOOSE r \in {IF av = <<>> THEN <<>>
                  ELSE [i \in 1..(k \div 12) |-> 0] \o NatMulSmall(av, 2^(k % 12)) :
                     av \in {a}} : TRUE

\* a \div 2^k
NatShr(a, k) ==
    CHOOSE r \in {IF k \div 12 >= Len(av) THEN <<>>
                  ELSE NatDivSmall(SubSeq(av, (k \div 12) + 1, Len(av)), 2^(k % 12)).q :
                     av \in {a}} : TRUE

\* the number of low zero binary digits of a # 0
NatTrailingZeros(a) ==
    CHOOSE r \in
        UNION {{(i - 1) * 12 + (CHOOSE z \in 0..11 : av[i] % 2^z = 0 /\ av[i] % 2^(z + 1) # 0) :
                   i \in {SetMin({j \in 1..Len(av) : av[j] # 0})}} :
                  av \in {a}} : TRUE

NaN == [kind |-> "nan", neg |-> FALSE, man |-> <<>>, exp |-> 0]

Inf(neg) == [kind |-> "inf", neg |-> neg, man |-> <<>>, exp |-> 0]

\* (-1)^neg * m * 2^t, which is a binary64 value, as a record
Finite(neg, m, t) ==
    CHOOSE r \in
        {IF mv = <<>> THEN [kind |-> "finite", neg |-> neg, man |-> <<>>, exp |-> 0]
         ELSE CHOOSE f \in {[kind |-> "finite", neg |-> neg, man |-> NatShr(mv, z), exp |-> t + z] :
                               z \in {NatTrailingZeros(mv)}} : TRUE :
            mv \in {m}} : TRUE

Zero == Finite(FALSE, <<>>, 0)

\* kept * 2^t rounded up or not by the digits dropped below 2^t: low, the
\* value of the drop low digits of n, against half a unit; sticky tells a
\* non-zero remainder below n
RoundKept(neg, kept, low, drop, t, sticky) ==
    CHOOSE r \in
        {IF NatBitLen(m) + t > 1024 THEN Inf(neg) ELSE Finite(neg, m, t) :
            m \in UNION {{IF c > 0 \/ (c = 0 /\ (sticky \/ Limb(kept, 1) % 2 = 1))
                          THEN NatAdd(kept, NatOne) ELSE kept} :
                            c \in {NatCmp(NatShl(low, 1), NatShl(NatOne, drop))}}} : TRUE

\* the binary64 value nearest (n + f) * 2^e, where 0 <= f < 1 and f # 0 iff
\* sticky (then n has 55 binary digits or more)
FloatRound(neg, n, e, sticky) ==
    CHOOSE r \in
        {IF nv = <<>> THEN Finite(neg, <<>>, 0)
         ELSE CHOOSE f \in
                 {IF t <= e
                  THEN (IF NatBitLen(nv) + e > 1024 THEN Inf(neg) ELSE Finite(neg, nv, e))
                  ELSE CHOOSE g \in
                          {RoundKept(neg, kept, NatSub(nv, NatShl(kept, t - e)), t - e, t, sticky) :
                              kept \in {NatShr(nv, t - e)}} : TRUE :
                     t \in {Max(e + NatBitLen(nv) - 53, -1074)}} : TRUE :
            nv \in {n}} : TRUE

\* float(k) for an int 0 <= k < 2^31
FloatOfInt(k) == FloatRound(FALSE, NatFromInt(k), 0, FALSE)

\* x / n for a float x and an int 0 < n <= 2^18
FloatDivInt(x, n) ==
    CHOOSE r \in
        {IF xv.kind # "finite" THEN xv
         ELSE CHOOSE f \in
                 {CHOOSE g \in {FloatRound(xv.neg, d.q, xv.exp - s, d.r # 0) :
                                   d \in {NatDivSmall(NatShl(xv.man, s), n)}} : TRUE :
                     s \in {Max(0, 55 + IntBitLen(n) - NatBitLen(xv.man))}} : TRUE :
            xv \in {x}} : TRUE

\* x + y for finite x and y, neither zero
FiniteAdd(x, y) ==
    CHOOSE r \in
        {IF x.neg = y.neg THEN FloatRound(x.neg, NatAdd(a, b), e, FALSE)
         ELSE CHOOSE f \in
                 {IF c = 0 THEN Zero
                  ELSE IF c > 0 THEN FloatRound(x.neg, NatSub(a, b), e, FALSE)
                  ELSE FloatRound(y.neg, NatSub(b, a), e, FALSE) :
                     c \in {NatCmp(a, b)}} : TRUE :
            e \in {IF x.exp < y.exp THEN x.exp ELSE y.exp},
            a \in {NatShl(x.man, x.exp - (IF x.exp < y.exp THEN x.exp ELSE y.exp))},
            b \in {NatShl(y.man, y.exp - (IF x.exp < y.exp THEN x.exp ELSE y.exp))}} : TRUE

\* x + y
FloatAdd(x, y) ==
    CHOOSE r \in
        {IF xv.kind = "nan" \/ yv.kind = "nan" THEN NaN
         ELSE IF xv.kind = "inf" /\ yv.kind = "inf"
              THEN (IF xv.neg = yv.neg THEN xv ELSE NaN)
         ELSE IF xv.kind = "inf" THEN xv
         ELSE IF yv.kind = "inf" THEN yv
         ELSE IF xv.man = <<>> /\ yv.man = <<>> THEN Finite(xv.neg /\ yv.neg, <<>>, 0)
         ELSE IF xv.man = <<>> THEN yv
         ELSE IF yv.man = <<>> THEN xv
         ELSE FiniteAdd(xv, yv) :
            xv \in {x}, yv \in {y}} : TRUE

\* acc * 10^(hi-lo+1) + the number written by the decimal digits lo..hi of s
RECURSIVE NatFromDigitsRange(_, _, _, _)
NatFromDigitsRange(s, lo, hi, acc) ==
    IF lo > hi THEN acc
    ELSE IF lo = hi THEN NatMulAdd(acc, 10, DigitVal(s[lo]))
    ELSE CHOOSE r \in {NatFromDigitsRange(s, ((lo + hi) \div 2) + 1, hi, left) :
                          left \in {NatFromDigitsRange(s, lo, (lo + hi) \div 2, acc)}} : TRUE

\* the natural number written by a string of decimal digits
NatFromDigits(s) ==
    CHOOSE r \in {NatFromDigitsRange(sv, 1, Len(sv), <<>>) : sv \in {s}} : TRUE

\* a * 10^k
RECURSIVE NatTimesPow10(_, _)
NatTimesPow10(a, k) ==
    IF k <= 5 THEN NatMulSmall(a, 10^k)
    ELSE CHOOSE r \in {NatTimesPow10(half, k - (k \div 2)) :
                          half \in {NatTimesPow10(a, k \div 2)}} : TRUE

\* [q |-> a \div 10^k, sticky |-> sticky \/ a % 10^k # 0]
RECURSIVE NatDivPow10(_, _, _)
NatDivPow10(a, k, sticky) ==
    IF k <= 5
    THEN CHOOSE r \in {[q |-> d.q, sticky |-> sticky \/ d.r # 0] :
                          d \in {NatDivSmall(a, 10^k)}} : TRUE
    ELSE CHOOSE r \in {NatDivPow10(half.q, k - (k \div 2), half.sticky) :
                          half \in {NatDivPow10(a, k \div 2, sticky)}} : TRUE

\* s without its leading zeros
StripZeros(s) ==
    CHOOSE r \in {IF nz = {} THEN <<>> ELSE SubSeq(s, SetMin(nz), Len(s)) :
                     nz \in {{i \in 1..Len(s) : DigitVal(s[i]) # 0}}} : TRUE

\* the float nearest sig * 10^k, for a string sig of decimal digits that
\* starts with a non-zero digit (by magnitude alone when beyond the range)
DecimalToFloat(neg, sig, k) ==
    IF sig = <<>> THEN Finite(neg, <<>>, 0)
    ELSE IF Len(sig) + k > 310 THEN Inf(neg)
    ELSE IF Len(sig) + k < -330 THEN Finite(neg, <<>>, 0)
    ELSE IF k >= 0 THEN FloatRound(neg, NatTimesPow10(NatFromDigits(sig), k), 0, FALSE)
    ELSE CHOOSE r \in
            UNION {{CHOOSE f \in {FloatRound(neg, d.q, 0 - sh, d.sticky) :
                                     d \in {NatDivPow10(NatShl(n, sh), 0 - k, FALSE)}} : TRUE :
                       sh \in {Max(0, 55 + 4 * (0 - k) - NatBitLen(n))}} :
                      n \in {NatFromDigits(sig)}} : TRUE

\* the value of the exponent field of a float literal (a sign, then a digit
\* part); beyond six digits only its direction matters
ExponentValue(expo) ==
    CHOOSE r \in {(IF Negative(expo) THEN -1 ELSE 1) *
                  (IF Len(ds) > 6 THEN 1000000 ELSE DigitsValue(ds)) :
                     ds \in {StripZeros(NoUnderscores(Unsigned(expo)))}} : TRUE

\* the positions of the exponent marker and of the point
ExpMarks(u) == {i \in 1..Len(u) : u[i] \in {"e", "E"}}

Points(m) == {i \in 1..Len(m) : m[i] = "."}

\* the text before the exponent marker, and the text after it
MantissaOf(u) == IF ExpMarks(u) = {} THEN u ELSE SubSeq(u, 1, SetMin(ExpMarks(u)) - 1)

ExponentOf(u) == IF ExpMarks(u) = {} THEN <<>> ELSE SubSeq(u, SetMin(ExpMarks(u)) + 1, Len(u))

\* the digits before the point, and the digits after it
IntPart(m) == IF Points(m) = {} THEN m ELSE SubSeq(m, 1, SetMin(Points(m)) - 1)

FracPart(m) == IF Points(m) = {} THEN <<>> ELSE SubSeq(m, SetMin(Points(m)) + 1, Len(m))

\* digitpart ["." [digitpart]] | "." digitpart
IsMantissa(m) ==
    /\ Cardinality(Points(m)) <= 1
    /\ IF Points(m) = {} THEN IsDigitPart(m)
       ELSE /\ IntPart(m) = <<>> \/ IsDigitPart(IntPart(m))
            /\ FracPart(m) = <<>> \/ IsDigitPart(FracPart(m))
            /\ IntPart(m) # <<>> \/ FracPart(m) # <<>>

\* mantissa [("e" | "E") ["+" | "-"] digitpart]
IsDecimal(u) ==
    /\ Cardinality(ExpMarks(u)) <= 1
    /\ IsMantissa(MantissaOf(u))
    /\ ExpMarks(u) = {} \/ IsDigitPart(Unsigned(ExponentOf(u)))

\* the value of a decimal literal without its sign
DecimalValue(neg, u) ==
    CHOOSE r \in
        {DecimalToFloat(neg, StripZeros(NoUnderscores(IntPart(m)) \o frac),
                        (IF ExpMarks(u) = {} THEN 0 ELSE ExponentValue(ExponentOf(u))) - Len(frac)) :
            m \in {MantissaOf(u)}, frac \in {NoUnderscores(FracPart(MantissaOf(u)))}} : TRUE

\* float(s) of the text after the blanks and the sign have been taken off
FloatOfUnsigned(neg, u) ==
    IF AsciiLower(u) \in {<<"i", "n", "f">>, <<"i", "n", "f", "i", "n", "i", "t", "y">>}
    THEN [raised |-> FALSE, value |-> Inf(neg)]
    ELSE IF AsciiLower(u) = <<"n", "a", "n">> THEN [raised |-> FALSE, value |-> NaN]
    ELSE IF IsDecimal(u) THEN [raised |-> FALSE, value |-> DecimalValue(neg, u)]
    ELSE [raised |-> TRUE, value |-> Zero]

\* float(s): blanks around, a sign, then inf, infinity, nan or a decimal
\* literal; ValueError otherwise
ParseFloat(s) ==
    CHOOSE r \in {FloatOfUnsigned(Negative(t), Unsigned(t)) : t \in {Strip(s)}} : TRUE

RESOURCES == <<"cpu", "gpu", "mem">>

PARTITIONS == <<"priority", "default">>

ResourceNames == {RESOURCES[i] : i \in 1..Len(RESOURCES)}

PartitionNames == {PARTITIONS[i] : i \in 1..Len(PARTITIONS)}

\* the characters of a resource name
ResText(res) ==
    IF res = "cpu" THEN <<"c", "p", "u">> ELSE IF res = "gpu" THEN <<"g", "p", "u">> ELSE <<"m", "e", "m">>

\* s.rstrip("G"): s without its longest suffix of G's
RStripG(s) ==
    SubSeq(s, 1, CHOOSE n \in 0..Len(s) :
                     /\ \A i \in (n + 1)..Len(s) : s[i] = "G"
                     /\ n > 0 => s[n] # "G")

\* the text float() is applied to for res, when "<res>=" occurs in alloc_tres
UsageValStr(alloc_tres, res) ==
    LET start == Find(alloc_tres, ResText(res) \o <<"=">>)
        val_str == SliceFrom(alloc_tres, start + Len(ResText(res)) + 1)
        end == Find(val_str, <<",">>)
    IN RStripG(IF end # -1 THEN Slice(val_str, 0, end) ELSE val_str)

\* the body of the loop of parse_usage for one resource
UsageOf(alloc_tres, res) ==
    IF Contains(alloc_tres, ResText(res)) /\ Find(alloc_tres, ResText(res) \o <<"=">>) # -1
    THEN ParseFloat(UsageValStr(alloc_tres, res))
    ELSE [raised |-> FALSE, value |-> Zero]

parse_usage(alloc_tres) ==
    IF \E res \in ResourceNames : UsageOf(alloc_tres, res).raised
    THEN [raised |-> TRUE, value |-> [res \in ResourceNames |-> Zero]]
    ELSE [raised |-> FALSE, value |-> [res \in ResourceNames |-> UsageOf(alloc_tres, res).value]]

(***************************************************************************)
(* GRES and allocation-string inputs                                       *)
(***************************************************************************)
GresItems ==
    { <<"g", "p", "u", ":", "a", "1", "0", "0", ":", "2">>,
      <<"g", "p", "u", ":", "h", "1", "0", "0", ":", "1">>,
      <<"g", "p", "u", ":", "a", "1", "0", "0", ":", "4", "(", "S", ":", "0", "-", "1", ")">>,
      <<"(", "n", "u", "l", "l", ")">>,
      <<"m", "p", "s", ":", "a", "1", "0", "0", ":", "2">>,
      <<"g", "p", "u", ":", "2">>,
      <<"g", "p", "u", ":", "t", "4", ":", "²">> }

RECURSIVE CommaJoined(_, _)
CommaJoined(items, k) ==
    IF k = 1 THEN items
    ELSE {c \o <<",">> \o s : c \in CommaJoined(items, k - 1), s \in items}

GresInputs == UNION {CommaJoined(GresItems, k) : k \in 1..MaxGresItems}

UsagePairs ==
    { <<"m", "e", "m", "=", "7", ".", "5", "0", "G">>,
      <<"c", "p", "u", "=", "4">>,
      <<"g", "p", "u", "=", "2">>,
      <<"m", "e", "m", "=", "8", "G">>,
      <<"b", "i", "l", "l", "i", "n", "g", "=", "8">>,
      <<"g", "r", "e", "s", "/", "g", "p", "u", "=", "3">>,
      <<"x", "c", "p", "u", "=", "a", "b", "c">>,
      <<"n", "o", "d", "e", "=", "1">> }

UsageInputs == UNION {CommaJoined(UsagePairs, k) : k \in 1..MaxPairs}

InitGpu ==
    /\ pc = "call"
    /\ arg \in GresInputs
    /\ ret = NoRet
    /\ gpu_only = FALSE
    /\ output = <<>>
    /\ servers = NoServers
    /\ consumed = <<>>
    /\ raised = FALSE

CallParseGpu ==
    /\ pc = "call"
    /\ ret' = parse_gpu(arg)
    /\ pc' = "returned"
    /\ UNCHANGED <<arg, gpu_only, output, servers, consumed, raised>>

SpecGpu == InitGpu /\ [][CallParseGpu]_vars

InitUsage ==
    /\ pc = "call"
    /\ arg \in UsageInputs
    /\ ret = NoRet
    /\ gpu_only = FALSE
    /\ output = <<>>
    /\ servers = NoServers
    /\ consumed = <<>>
    /\ raised = FALSE

CallParseUsage ==
    /\ pc = "call"
    /\ ret' = parse_usage(arg)
    /\ pc' = "returned"
    /\ UNCHANGED <<arg, gpu_only, output, servers, consumed, raised>>

SpecUsage == InitUsage /\ [][CallParseUsage]_vars

(***************************************************************************)
(* parse_sinfo and process_jobs                                            *)
(***************************************************************************)
IsNonEmpty(p) == p # <<>>

\* [p for p in line.split(" ") if p]: the non-empty pieces between spaces
SpaceFields(line) == SelectSeq(Split(line, " "), IsNonEmpty)

\* the positions where a run of non-blank characters starts, and where the
\* run that starts at i ends
WordStarts(line) ==
    {i \in 1..Len(line) : line[i] \notin Whitespace /\ (i = 1 \/ line[i - 1] \in Whitespace)}

WordEnd(line, i) ==
    SetMin({j \in i..Len(line) : j = Len(line) \/ line[j + 1] \in Whitespace})

\* line.split(): the maximal runs of non-blank characters
WhitespaceFields(line) ==
    CHOOSE r \in {[k \in 1..Cardinality(st) |-> SubSeq(line, Kth(st, k), WordEnd(line, Kth(st, k)))] :
                     st \in {WordStarts(line)}} : TRUE

\* the record parse_sinfo stores for each server of a line
NewServer(gpu, cpu, mem) ==
    [gpu |-> gpu, cpu |-> cpu, mem |-> mem,
     usage |-> [r \in ResourceNames |-> [p \in PartitionNames |-> Zero]],
     users |-> [j \in {} |-> 0]]

SeqRange(s) == {s[i] : i \in 1..Len(s)}

\* the line is skipped by "if gpu_only and gpu['type'] == 'null': continue"
SkipsNullAlways(flag, gpu) == FALSE

SkipsNull(flag, gpu) == flag /\ gpu.type = NullText

\* "for server in parse_nodelist(parts[0]): servers[server] = {...}"
StoreServers(srv, hosts, rec) ==
    [h \in (DOMAIN srv) \cup SeqRange(hosts) |-> IF h \in SeqRange(hosts) THEN rec ELSE srv[h]]

\* The body of the loop of parse_sinfo for a line of fields parts: the servers
\* map after the line, or raised (IndexError on a missing field, ValueError
\* from a decoder).
SinfoFields(srv, parts, flag) ==
    IF parts = <<>> THEN [raised |-> FALSE, value |-> srv]
    ELSE IF Len(parts) < 2 THEN [raised |-> TRUE, value |-> srv]
    ELSE IF parse_gpu(parts[2]).raised THEN [raised |-> TRUE, value |-> srv]
    ELSE IF SkipsNull(flag, parse_gpu(parts[2]).value) THEN [raised |-> FALSE, value |-> srv]
    ELSE IF Len(parts) < 5 THEN [raised |-> TRUE, value |-> srv]
    ELSE CHOOSE r \in
            {IF cpu.raised \/ mem.raised \/ nodes.raised THEN [raised |-> TRUE, value |-> srv]
             ELSE [raised |-> FALSE,
                   value |-> StoreServers(srv, nodes.value,
                                          NewServer(parse_gpu(parts[2]).value, cpu.value,
                                                    mem.value))] :
                cpu \in {parse_cpu(parts[3])},
                mem \in {parse_mem(parts[4], parts[5])},
                nodes \in {parse_nodelist(parts[1])}} : TRUE

\* One iteration of the loop of parse_sinfo: parts = line.split()
SinfoLine(srv, line, flag) ==
    CHOOSE r \in {SinfoFields(srv, parts, flag) : parts \in {WhitespaceFields(line)}} : TRUE

\* the loop of parse_sinfo from line k on, with srv the map built so far
RECURSIVE SinfoLines(_, _, _, _)
SinfoLines(srv, lines, k, flag) ==
    IF k > Len(lines) THEN [raised |-> FALSE, value |-> srv]
    ELSE CHOOSE r \in
            {IF first.raised THEN [raised |-> TRUE, value |-> NoServers]
             ELSE SinfoLines(first.value, lines, k + 1, flag) :
                first \in {SinfoLine(srv, lines[k], flag)}} : TRUE

\* lines is output.strip().split("\n")
parse_sinfo(lines, flag) == SinfoLines(NoServers, lines, 1, flag)

PartitionType(partition) == IF is_priority(partition) THEN "priority" ELSE "default"

\* usage[r] / num_nodes
Share(usage, r, num_nodes) == FloatDivInt(usage[r], num_nodes)

\* the users entry and the accumulators of one node after the body of
\* "if node in servers"
Attribute(rec, parts, usage, num_nodes) ==
    [rec EXCEPT
        !.users = [j \in (DOMAIN rec.users) \cup {parts[6]} |->
                      IF j = parts[6]
                      THEN [netid |-> parts[1], partition |-> parts[2],
                            cpu |-> Share(usage, "cpu", num_nodes),
                            gpu |-> Share(usage, "gpu", num_nodes),
                            mem |-> Share(usage, "mem", num_nodes)]
                      ELSE rec.users[j]],
        !.usage = [r \in ResourceNames |->
                      [p \in PartitionNames |->
                          IF p = PartitionType(parts[2])
                          THEN FloatAdd(rec.usage[r][p], Share(usage, r, num_nodes))
                          ELSE rec.usage[r][p]]]]

\* the body of "for node in nodes" for the node at position k
AttributeNode(srv, nodes, k, parts, usage) ==
    IF nodes[k] \in DOMAIN srv
    THEN [srv EXCEPT ![nodes[k]] = Attribute(srv[nodes[k]], parts, usage, Len(nodes))]
    ELSE srv

\* "for node in nodes": the servers map after the nodes from position k on
RECURSIVE AttributeNodes(_, _, _, _, _)
AttributeNodes(srv, nodes, k, parts, usage) ==
    IF k > Len(nodes) THEN srv
    ELSE CHOOSE r \in
            {AttributeNodes(next, nodes, k + 1, parts, usage) :
                next \in {AttributeNode(srv, nodes, k, parts, usage)}} : TRUE

\* The body of the loop of process_jobs for a line of tokens parts.
JobFields(srv, parts) ==
    IF Len(parts) < 6 THEN [raised |-> FALSE, value |-> srv]
    ELSE CHOOSE r \in
            {IF usage.raised \/ nodes.raised THEN [raised |-> TRUE, value |-> srv]
             ELSE [raised |-> FALSE,
                   value |-> AttributeNodes(srv, nodes.value, 1, parts, usage.value)] :
                usage \in {parse_usage(parts[5])}, nodes \in {parse_nodelist(parts[3])}} : TRUE

\* One iteration of the loop of process_jobs: parts = [p for p in line.split(" ") if p]
JobLine(srv, line) ==
    CHOOSE r \in {JobFields(srv, parts) : parts \in {SpaceFields(line)}} : TRUE

(***************************************************************************)
(* The two feeds                                                           *)
(***************************************************************************)
\* three GPU nodes on one line: "n[01-03] gpu:a100:4 0/8/0/8 1024 4096"
SinfoGpuNodes ==
    <<"n", "[", "0", "1", "-", "0", "3", "]", " ", "g", "p", "u", ":", "a", "1", "0",
      "0", ":", "4", " ", "0", "/", "8", "/", "0", "/", "8", " ", "1", "0", "2", "4",
      " ", "4", "0", "9", "6">>

\* a line without GPUs naming n01 again, and c02: "n01,c02 (null) 4/4/0/8 0 2048"
SinfoNullPair ==
    <<"n", "0", "1", ",", "c", "0", "2", " ", "(", "n", "u", "l", "l", ")", " ", "4",
      "/", "4", "/", "0", "/", "8", " ", "0", " ", "2", "0", "4", "8">>

\* an untyped GRES item (kind null without the marker), a non-numeric memory
\* field, a tab after the first field: "c01\tgpu:2 8/0/0/8 n/a 2048"
SinfoUntyped ==
    <<"c", "0", "1", "\t", "g", "p", "u", ":", "2", " ", "8", "/", "0", "/", "0", "/",
      "8", " ", "n", "/", "a", " ", "2", "0", "4", "8">>

\* a line of two fields: "n04 gpu:a100:2"
SinfoShort ==
    <<"n", "0", "4", " ", "g", "p", "u", ":", "a", "1", "0", "0", ":", "2">>

\* an empty line: ""
SinfoBlank ==
    <<>>

SinfoLineInputs == {SinfoGpuNodes, SinfoNullPair, SinfoUntyped, SinfoShort, SinfoBlank}

\* gpu=4 over two nodes, a default-class partition: "al gpu n[01-02] RUNNING billing=8,cpu=4,gres/gpu=4,mem=8G 1"
JobTwoNodes ==
    <<"a", "l", " ", "g", "p", "u", " ", "n", "[", "0", "1", "-", "0", "2", "]", " ",
      "R", "U", "N", "N", "I", "N", "G", " ", "b", "i", "l", "l", "i", "n", "g", "=",
      "8", ",", "c", "p", "u", "=", "4", ",", "g", "r", "e", "s", "/", "g", "p", "u",
      "=", "4", ",", "m", "e", "m", "=", "8", "G", " ", "1">>

\* a priority-class job on two nodes: "bo prio n01,c01 RUNNING billing=2,cpu=2,mem=4G 2"
JobPriority ==
    <<"b", "o", " ", "p", "r", "i", "o", " ", "n", "0", "1", ",", "c", "0", "1", " ",
      "R", "U", "N", "N", "I", "N", "G", " ", "b", "i", "l", "l", "i", "n", "g", "=",
      "2", ",", "c", "p", "u", "=", "2", ",", "m", "e", "m", "=", "4", "G", " ", "2">>

\* a nodelist naming n01 twice: "al prio n01,n01 RUNNING billing=2,cpu=2 3"
JobSameNodeTwice ==
    <<"a", "l", " ", "p", "r", "i", "o", " ", "n", "0", "1", ",", "n", "0", "1", " ",
      "R", "U", "N", "N", "I", "N", "G", " ", "b", "i", "l", "l", "i", "n", "g", "=",
      "2", ",", "c", "p", "u", "=", "2", " ", "3">>

\* a job on c02 alone, with the job id of JobTwoNodes: "bo default c02 RUNNING billing=1,cpu=1 1"
JobOnC02 ==
    <<"b", "o", " ", "d", "e", "f", "a", "u", "l", "t", " ", "c", "0", "2", " ", "R",
      "U", "N", "N", "I", "N", "G", " ", "b", "i", "l", "l", "i", "n", "g", "=", "1",
      ",", "c", "p", "u", "=", "1", " ", "1">>

\* an AllocTRES wider than its 80 columns, which sacct cuts and closes with "+"; zz9 is not
\* in the inventory: "al gpu zz9 RUNNING billing=64,cpu=64,gres/gpu:nvidia_a100-sxm4-80gb=8,gres/gpu=8,gres/mps=10,mem=5+ 4"
JobTruncated ==
    <<"a", "l", " ", "g", "p", "u", " ", "z", "z", "9", " ", "R", "U", "N", "N", "I", "N",
      "G", " ", "b", "i", "l", "l", "i", "n", "g", "=", "6", "4", ",", "c", "p", "u", "=",
      "6", "4", ",", "g", "r", "e", "s", "/", "g", "p", "u", ":", "n", "v", "i", "d", "i",
      "a", "_", "a", "1", "0", "0", "-", "s", "x", "m", "4", "-", "8", "0", "g", "b", "=",
      "8", ",", "g", "r", "e", "s", "/", "g", "p", "u", "=", "8", ",", "g", "r", "e", "s",
      "/", "m", "p", "s", "=", "1", "0", ",", "m", "e", "m", "=", "5", "+", " ", "4">>

\* the same cut AllocTRES on a job that runs on n01:
\* "cy gpu n01 RUNNING billing=64,cpu=64,gres/gpu:nvidia_a100-sxm4-80gb=8,gres/gpu=8,gres/mps=10,mem=5+ 8"
JobTruncatedOnN01 ==
    <<"c", "y", " ", "g", "p", "u", " ", "n", "0", "1", " ", "R", "U", "N", "N", "I", "N",
      "G", " ", "b", "i", "l", "l", "i", "n", "g", "=", "6", "4", ",", "c", "p", "u", "=",
      "6", "4", ",", "g", "r", "e", "s", "/", "g", "p", "u", ":", "n", "v", "i", "d", "i",
      "a", "_", "a", "1", "0", "0", "-", "s", "x", "m", "4", "-", "8", "0", "g", "b", "=",
      "8", ",", "g", "r", "e", "s", "/", "g", "p", "u", "=", "8", ",", "g", "r", "e", "s",
      "/", "m", "p", "s", "=", "1", "0", ",", "m", "e", "m", "=", "5", "+", " ", "8">>

\* a line of five tokens: "bo gpu n01 RUNNING billing=1"
JobShort ==
    <<"b", "o", " ", "g", "p", "u", " ", "n", "0", "1", " ", "R", "U", "N", "N", "I",
      "N", "G", " ", "b", "i", "l", "l", "i", "n", "g", "=", "1">>

\* cpu=2 and mem=7.50G over three nodes: "al gpu n[01-03] RUNNING billing=2,cpu=2,mem=7.50G 5"
JobThreeNodes ==
    <<"a", "l", " ", "g", "p", "u", " ", "n", "[", "0", "1", "-", "0", "3", "]", " ",
      "R", "U", "N", "N", "I", "N", "G", " ", "b", "i", "l", "l", "i", "n", "g", "=",
      "2", ",", "c", "p", "u", "=", "2", ",", "m", "e", "m", "=", "7", ".", "5", "0",
      "G", " ", "5">>

\* a range int() rejects: "bo gpu n[a-b] RUNNING billing=1,cpu=1 6"
JobBadRange ==
    <<"b", "o", " ", "g", "p", "u", " ", "n", "[", "a", "-", "b", "]", " ", "R", "U",
      "N", "N", "I", "N", "G", " ", "b", "i", "l", "l", "i", "n", "g", "=", "1", ",",
      "c", "p", "u", "=", "1", " ", "6">>

\* a job that is not running: "cy gpu n01 PENDING billing=1,cpu=1 7"
JobPending ==
    <<"c", "y", " ", "g", "p", "u", " ", "n", "0", "1", " ", "P", "E", "N", "D", "I",
      "N", "G", " ", "b", "i", "l", "l", "i", "n", "g", "=", "1", ",", "c", "p", "u",
      "=", "1", " ", "7">>

\* the lines sacct can print
SacctLines ==
    {JobTwoNodes, JobPriority, JobSameNodeTwice, JobOnC02, JobTruncated,
     JobTruncatedOnN01, JobShort, JobThreeNodes, JobBadRange, JobPending}

\* "| grep word": the lines that hold the word
Grep(word, lines) == {l \in lines : Contains(l, word)}

\* GTOP: "sacct ... | grep RUNNING | grep billing"
JobLineInputs ==
    Grep(<<"b", "i", "l", "l", "i", "n", "g">>, Grep(<<"R", "U", "N", "N", "I", "N", "G">>, SacctLines))

RECURSIVE FeedsOfLen(_, _)
FeedsOfLen(lines, k) ==
    IF k = 0 THEN {<<>>}
    ELSE {Append(f, l) : f \in FeedsOfLen(lines, k - 1), l \in lines}

\* output.strip().split("\n"): at least one line; an empty line only between
\* two others, or alone (the empty output)
SinfoFeeds ==
    {f \in UNION {FeedsOfLen(SinfoLineInputs, k) : k \in 1..MaxSinfoLines} :
        Len(f) = 1 \/ (f[1] # <<>> /\ f[Len(f)] # <<>>)}

Init ==
    /\ pc = "sinfo"
    /\ arg = <<>>
    /\ ret = NoRet
    /\ gpu_only \in BOOLEAN
    /\ output \in SinfoFeeds
    /\ servers = NoServers
    /\ consumed = <<>>
    /\ raised = FALSE

\* servers = parse_sinfo(exec_cmd(SINFO), args.gpu_only)
ParseSinfo ==
    /\ pc = "sinfo"
    /\ \E res \in {parse_sinfo(output, gpu_only)} :
          /\ servers' = res.value
          /\ raised' = res.raised
          /\ pc' = IF res.raised THEN "crashed" ELSE "jobs"
    /\ UNCHANGED <<arg, ret, gpu_only, output, consumed>>

\* process_jobs takes the next line of the job feed
ProcessJobLine(line) ==
    /\ pc = "jobs"
    /\ Len(consumed) < MaxJobLines
    /\ consumed' = Append(consumed, line)
    /\ \E res \in {JobLine(servers, line)} :
          /\ servers' = res.value
          /\ raised' = res.raised
          /\ pc' = IF res.raised THEN "crashed" ELSE "jobs"
    /\ UNCHANGED <<arg, ret, gpu_only, output>>

Next ==
    \/ ParseSinfo
    \/ \E line \in JobLineInputs : ProcessJobLine(line)

Spec == Init /\ [][Next]_vars

(***************************************************************************)
(* What a HostRange expression denotes, read off the expression itself:    *)
(* its top-level segments, and for each segment the hostnames it stands    *)
(* for (a verbatim name, or a base and a number).                          *)
(***************************************************************************)
CountIn(s, ch, n) == Cardinality({i \in 1..n : s[i] = ch})

TopCommas(e) ==
    {i \in 1..Len(e) : e[i] = "," /\ CountIn(e, "[", i) = CountIn(e, "]", i)}

RECURSIVE HostSegments(_)
HostSegments(e) ==
    IF TopCommas(e) = {} THEN <<e>>
    ELSE LET i == CHOOSE c \in TopCommas(e) : \A d \in TopCommas(e) : c <= d
         IN <<SubSeq(e, 1, i - 1)>> \o HostSegments(SubSeq(e, i + 1, Len(e)))

\* the text writes an integer
IsNumeric(t) == ~ParseInt(t).raised

\* two numeric bounds around one "-"
IsRangeSub(sub) ==
    /\ Len(Split(sub, "-")) = 2
    /\ IsNumeric(Split(sub, "-")[1])
    /\ IsNumeric(Split(sub, "-")[2])

RangeStart(sub) == ParseInt(Split(sub, "-")[1]).value

RangeEnd(sub) == ParseInt(Split(sub, "-")[2]).value

\* a range as the data model has it: both bounds strings of digits of one
\* width, start <= end
IsValidRange(sub) ==
    /\ IsRangeSub(sub)
    /\ IsDigit(Split(sub, "-")[1])
    /\ IsDigit(Split(sub, "-")[2])
    /\ Len(Split(sub, "-")[1]) = Len(Split(sub, "-")[2])
    /\ RangeStart(sub) <= RangeEnd(sub)

RangeWidth(sub) == Len(Split(sub, "-")[1])

IsValidSub(sub) == IsDigit(sub) \/ IsValidRange(sub)

HasBrackets(seg) == \E i \in 1..Len(seg) : seg[i] \in {"[", "]"}

SegBase(seg) == SubSeq(seg, 1, (CHOOSE i \in 1..Len(seg) : seg[i] = "[") - 1)

SegSubs(seg) ==
    Split(SubSeq(seg, (CHOOSE i \in 1..Len(seg) : seg[i] = "[") + 1, Len(seg) - 1), ",")

\* base[sub(,sub)*], or a plain non-empty name
IsValidSegment(seg) ==
    IF HasBrackets(seg)
    THEN /\ CountIn(seg, "[", Len(seg)) = 1
         /\ CountIn(seg, "]", Len(seg)) = 1
         /\ seg[Len(seg)] = "]"
         /\ \A k \in 1..Len(SegSubs(seg)) : IsValidSub(SegSubs(seg)[k])
    ELSE seg # <<>>

IsValidExpr(e) ==
    \A k \in 1..Len(HostSegments(e)) : IsValidSegment(HostSegments(e)[k])

\* the hostnames one sub-spec stands for; a range that cannot be read, or
\* whose start exceeds its end, stands for none
ItemsOfSub(base, sub) ==
    IF IsRangeSub(sub) /\ RangeEnd(sub) < RangeStart(sub) THEN <<>>
    ELSE IF IsRangeSub(sub)
    THEN [k \in 1..(RangeEnd(sub) - RangeStart(sub) + 1) |->
             [base |-> base, verbatim |-> FALSE, text |-> <<>>, num |-> RangeStart(sub) + k - 1]]
    ELSE IF Contains(sub, <<"-">>) THEN <<>>
    ELSE <<[base |-> base, verbatim |-> TRUE, text |-> sub, num |-> 0]>>

RECURSIVE ItemsOfSubs(_, _)
ItemsOfSubs(base, subs) ==
    IF subs = <<>> THEN <<>>
    ELSE ItemsOfSub(base, subs[1]) \o ItemsOfSubs(base, Tail(subs))

ItemsOfSegment(seg) ==
    IF HasBrackets(seg) THEN ItemsOfSubs(SegBase(seg), SegSubs(seg))
    ELSE <<[base |-> seg, verbatim |-> TRUE, text |-> <<>>, num |-> 0]>>

RECURSIVE ItemsOfSegments(_)
ItemsOfSegments(segs) ==
    IF segs = <<>> THEN <<>>
    ELSE ItemsOfSegment(segs[1]) \o ItemsOfSegments(Tail(segs))

ExpectedItems(e) == ItemsOfSegments(HostSegments(e))

\* host is the hostname of item: the base, then the index as listed, or for a
\* member of a range a decimal numeral of its number
Matches(host, item) ==
    IF item.verbatim THEN host = item.base \o item.text
    ELSE /\ StartsWith(host, item.base)
         /\ IsDigit(SliceFrom(host, Len(item.base)))
         /\ DigitsValue(SliceFrom(host, Len(item.base))) = item.num

\* the bracketed sub-specs of the expression, over all its segments
BracketSubs(e) ==
    UNION {{SegSubs(HostSegments(e)[k])[j] : j \in 1..Len(SegSubs(HostSegments(e)[k]))} :
              k \in {k \in 1..Len(HostSegments(e)) :
                        /\ HasBrackets(HostSegments(e)[k])
                        /\ IsValidSegment(HostSegments(e)[k])}}

\* C4: every suffix generated for a range start-end has the digit count of the
\* range's tokens in the input (1, 2 or 3 digits here).
C4_WidthPreserved ==
    pc = "returned" =>
        \A sub \in BracketSubs(arg) :
            IsValidRange(sub) =>
                \A k \in 1..Len(expand_range(sub).value) :
                    Len(expand_range(sub).value[k]) = RangeWidth(sub)

\* C5: on a valid HostRange expression parse_nodelist returns, in the order of
\* the top-level segments and of the sub-specs inside each bracket, one
\* hostname per bare name or index and end-start+1 per range; commas inside
\* brackets do not split segments.
C5_LengthAndOrder ==
    (pc = "returned" /\ IsValidExpr(arg)) =>
        /\ ~ret.raised
        /\ Len(ret.value) = Len(ExpectedItems(arg))
        /\ \A k \in 1..Len(ret.value) : Matches(ret.value[k], ExpectedItems(arg)[k])

\* "nodeA,n[08-10,5]" has been expanded to nodeA, n08, n09, n10, n5
C5_Witness ==
    /\ pc = "returned"
    /\ arg = <<"n", "o", "d", "e", "A", ",", "n", "[", "0", "8", "-", "1", "0", ",", "5", "]">>
    /\ IsValidExpr(arg)
    /\ ret.value = << <<"n", "o", "d", "e", "A">>, <<"n", "0", "8">>, <<"n", "0", "9">>,
                       <<"n", "1", "0">>, <<"n", "5">> >>

\* C9: the expander never raises; a range with start > end yields no
\* hostname, and a range that cannot be parsed yields none for its fragment
\* while the other fragments are still expanded.
C9_NeverRaises ==
    pc = "returned" =>
        /\ ~ret.raised
        /\ Len(ret.value) = Len(ExpectedItems(arg))
        /\ \A k \in 1..Len(ret.value) : Matches(ret.value[k], ExpectedItems(arg)[k])

(***************************************************************************)
(* Properties of the decoders                                              *)
(***************************************************************************)
\* the elements of s in the order of their first occurrence
FirstSeen(s) ==
    LET keep == {k \in 1..Len(s) : \A j \in 1..(k - 1) : s[j] # s[k]}
    IN [i \in 1..Cardinality(keep) |-> s[Kth(keep, i)]]

\* the kind rendered from a duplicate-free list of model names
KindOf(models) ==
    IF models = <<>> THEN NullText
    ELSE IF Len(models) = 1 THEN models[1]
    ELSE <<"(">> \o Join(models, <<"|">>) \o <<")">>

\* C6: for a GRES string without the null marker, kind is rendered from the
\* duplicate-free first-seen list of the model names of the matching items
\* (one distinct model gives its bare name, even when several items carry
\* it), and count is the sum over all matching items.
C6_KindFromDistinctModels ==
    (pc = "returned" /\ ~Contains(arg, NullText)) =>
        /\ ~ret.raised
        /\ ret.value.type = KindOf(FirstSeen(GpuTypes(Split(arg, ","))))
        /\ ret.value.num = GpuTotal(Split(arg, ","))

\* the key and the value of a key=value pair
PairKey(pair) == IF Contains(pair, <<"=">>) THEN Slice(pair, 0, Find(pair, <<"=">>)) ELSE pair

PairValue(pair) ==
    IF Contains(pair, <<"=">>) THEN SliceFrom(pair, Find(pair, <<"=">>) + 1) ELSE <<>>

\* the value of the pair whose key is exactly the resource name, without its
\* trailing G, as float() reads it; 0 when there is no such pair or the value
\* is no number
ExactKeyUsage(alloc_tres, res) ==
    LET pairs == Split(alloc_tres, ",")
        hits == {k \in 1..Len(pairs) : PairKey(pairs[k]) = ResText(res)}
    IN IF hits = {} THEN Zero
       ELSE CHOOSE x \in {IF f.raised THEN Zero ELSE f.value :
                             f \in {ParseFloat(RStripG(PairValue(pairs[Kth(hits, 1)])))}} : TRUE

\* C8: parse_usage never fails, and each of cpu, gpu, mem decodes to the
\* value of the pair whose key is exactly that name, whatever the order of
\* the pairs; pairs with other keys (also keys that contain or end with a
\* resource name) change nothing; a resource without a pair decodes to 0.
C8_ExactKeysOnly ==
    pc = "returned" =>
        /\ ~ret.raised
        /\ \A res \in ResourceNames : ret.value[res] = ExactKeyUsage(arg, res)

(***************************************************************************)
(* Properties of the inventory and of the aggregation                      *)
(***************************************************************************)
\* the step is one iteration of the loop of process_jobs, on TheLine
JobStep == consumed' # consumed

TheLine == consumed'[Len(consumed')]

\* the partition class as the data model defines it
ClassOf(partition) ==
    IF Contains(partition, <<"d", "e", "f", "a", "u", "l", "t">>) \/ Contains(partition, <<"g", "p", "u">>)
    THEN "default" ELSE "priority"

\* how many times the nodelist names h
Occ(nodes, h) == Cardinality({k \in 1..Len(nodes) : nodes[k] = h})

\* acc after q has been added to it k times
RECURSIVE AddTimes(_, _, _)
AddTimes(acc, q, k) == IF k = 0 THEN acc ELSE FloatAdd(AddTimes(acc, q, k - 1), q)

\* the job line has its six tokens and its allocation string and nodelist decode
Decodes(parts) ==
    /\ Len(parts) >= 6
    /\ ~parse_usage(parts[5]).raised
    /\ ~parse_nodelist(parts[3]).raised

\* what the claim asks of a job line of tokens parts: for every resource r
\* the allocation string gives a value usage[r] (UsageOf reads it), and with
\* nodes the expansion of the nodelist and nodeCount its length, every
\* inventory node has received the float usage[r] / nodeCount in its
\* accumulator of the job's class, once for each time nodes names it (none
\* when it does not), and when all of nodes is in the inventory the
\* nodeCount shares, added up as floats, are usage[r]
SharesAttributed(parts) ==
    \A nodes \in {e.value : e \in {x \in {parse_nodelist(parts[3])} : ~x.raised}} :
    \A c \in {ClassOf(parts[2])} :
    \A r \in ResourceNames :
    \A total \in {u.value : u \in {x \in {UsageOf(parts[5], r)} : ~x.raised}} :
    \A q \in {FloatDivInt(total, Max(Len(nodes), 1))} :
        /\ \A h \in DOMAIN servers :
              servers'[h].usage[r][c] = AddTimes(servers[h].usage[r][c], q, Occ(nodes, h))
        /\ (nodes # <<>> /\ SeqRange(nodes) \subseteq DOMAIN servers) =>
              AddTimes(Zero, q, Len(nodes)) = total

\* C1: on every job line with at least 6 fields, for every resource r, each
\* inventory hostname of the expanded nodelist receives usage[r] / nodeCount
\* in its accumulator of the job's partition class, and when all the job's
\* hostnames are in the inventory the shares attributed sum to usage[r].
C1_EachHostReceivesOneShare ==
    [][JobStep =>
          \A parts \in {p \in {SpaceFields(TheLine)} : Len(p) >= 6} :
              SharesAttributed(parts)]_vars

\* the shares of the job lines process_jobs gets through: the same, on every
\* line whose allocation string and nodelist decode
SharesOfDecodedLine ==
    [][JobStep =>
          \A parts \in {p \in {SpaceFields(TheLine)} : Decodes(p)} :
              SharesAttributed(parts)]_vars

HostN01 == <<"n", "0", "1">>

HostN02 == <<"n", "0", "2">>

HostN03 == <<"n", "0", "3">>

HostC02 == <<"c", "0", "2">>

\* what a job line leaves alone: the hostname keys, every capacity value,
\* and every record of a node its expanded nodelist does not name
FrameOfJobLine ==
    [][JobStep =>
          /\ DOMAIN servers' = DOMAIN servers
          /\ \A h \in DOMAIN servers :
                /\ servers'[h].gpu = servers[h].gpu
                /\ servers'[h].cpu = servers[h].cpu
                /\ servers'[h].mem = servers[h].mem
          /\ \A parts \in {SpaceFields(TheLine)} :
                IF Decodes(parts)
                THEN \A h \in (DOMAIN servers) \ SeqRange(parse_nodelist(parts[3]).value) :
                        servers'[h] = servers[h]
                ELSE servers' = servers]_vars

\* C2: a job line keeps the hostname keys and every capacity value, changes
\* only records of inventory nodes named in its own expanded nodelist, and
\* when none of its nodes is in the inventory it changes nothing and raises
\* no error.
C2_FrameAndNoError ==
    [][JobStep =>
          /\ DOMAIN servers' = DOMAIN servers
          /\ \A h \in DOMAIN servers :
                /\ servers'[h].gpu = servers[h].gpu
                /\ servers'[h].cpu = servers[h].cpu
                /\ servers'[h].mem = servers[h].mem
          /\ \A parts \in {p \in {SpaceFields(TheLine)} : Len(p) >= 6} :
             \A expanded \in {e \in {parse_nodelist(parts[3])} : ~e.raised} :
                /\ \A h \in (DOMAIN servers) \ SeqRange(expanded.value) :
                      servers'[h] = servers[h]
                /\ (SeqRange(expanded.value) \cap DOMAIN servers = {}) =>
                      (servers' = servers /\ ~raised')]_vars

\* the hostnames of the node-info lines the gpu_only filter skipped that are
\* not in the inventory
ExcludedHosts ==
    UNION {SeqRange(parse_nodelist(WhitespaceFields(output[k])[1]).value) \ DOMAIN servers :
              k \in {k \in 1..Len(output) :
                        /\ gpu_only
                        /\ Len(WhitespaceFields(output[k])) >= 2
                        /\ parse_gpu(WhitespaceFields(output[k])[2]).value.type = NullText
                        /\ ~parse_nodelist(WhitespaceFields(output[k])[1]).raised}}

\* C3: with gpu_only set, every record of the inventory parse_sinfo returned
\* has a GPU kind other than "null" (also when a hostname is on a line with
\* GPUs and on one without), and a job whose nodelist names only nodes the
\* filter excluded leaves every accumulator of every node as it was.
C3_NoNullKindUnderGpuOnly ==
    [][/\ (gpu_only /\ pc' = "jobs") =>
              \A h \in DOMAIN servers' : servers'[h].gpu.type # NullText
       /\ (gpu_only /\ JobStep) =>
              \A parts \in {p \in {SpaceFields(TheLine)} : Len(p) >= 6} :
              \A expanded \in {e \in {parse_nodelist(parts[3])} : ~e.raised} :
                 (expanded.value # <<>> /\ SeqRange(expanded.value) \subseteq ExcludedHosts) =>
                     \A h \in DOMAIN servers : servers'[h].usage = servers[h].usage]_vars

\* n01 is on the GPU line and on the null line and is kept with kind a100;
\* c02 is excluded; the job on c02 alone has been consumed after a job that
\* gave n01 two GPUs, which n01 still has
C3_Witness ==
    /\ gpu_only
    /\ output = <<SinfoGpuNodes, SinfoNullPair>>
    /\ consumed = <<JobTwoNodes, JobOnC02>>
    /\ pc = "jobs"
    /\ DOMAIN servers = {HostN01, HostN02, HostN03}
    /\ HostC02 \in ExcludedHosts
    /\ servers[HostN01].gpu.type = <<"a", "1", "0", "0">>
    /\ servers[HostN01].usage["gpu"]["default"] = FloatOfInt(2)
    /\ servers[HostN01].usage["cpu"]["default"] = FloatOfInt(2)

\* a non-empty node-info line with fewer than 5 fields
IsShortSinfo(line) == WhitespaceFields(line) # <<>> /\ Len(WhitespaceFields(line)) < 5

NotShortSinfo(line) == ~IsShortSinfo(line)

\* C7: parse_sinfo skips a non-empty line of fewer than 5 fields and
\* process_jobs a line of fewer than 6 tokens: no error is raised, the line
\* contributes nothing, and the other lines of the feed are processed.
C7_ShortLinesSkipped ==
    [][/\ (pc = "sinfo" /\ pc' # "sinfo" /\ \E k \in 1..Len(output) : IsShortSinfo(output[k])) =>
              /\ ~raised'
              /\ servers' = parse_sinfo(SelectSeq(output, NotShortSinfo), gpu_only).value
       /\ (JobStep /\ Len(SpaceFields(TheLine)) < 6) =>
              /\ ~raised'
              /\ servers' = servers
              /\ pc' = "jobs"]_vars

\* the lines consumed that have their six tokens
JobsConsumed == {k \in 1..Len(consumed) : Len(SpaceFields(consumed[k])) >= 6}

JobIdsDistinct ==
    \A i, j \in JobsConsumed : i # j => SpaceFields(consumed[i])[6] # SpaceFields(consumed[j])[6]

NoHostNamedTwice ==
    \A i \in JobsConsumed :
        \A res \in {parse_nodelist(SpaceFields(consumed[i])[3])} :
            ~res.raised => \A h \in SeqRange(res.value) : Occ(res.value, h) = 1

\* the job ids of the first k lines consumed, in order: {id} for a line of six
\* tokens or more, {} for a shorter one
RECURSIVE JobIdsTo(_)
JobIdsTo(k) ==
    IF k = 0 THEN <<>>
    ELSE Append(JobIdsTo(k - 1),
                {parts[6] : parts \in {p \in {SpaceFields(consumed[k])} : Len(p) >= 6}})

\* the r-shares of the jobs of class c in the jobs map of node h, added in
\* the order the jobs were recorded, over the first k of the job ids
RECURSIVE SumShares(_, _, _, _, _)
SumShares(h, r, c, ids, k) ==
    IF k = 0 THEN Zero
    ELSE IF \E id \in ids[k] : /\ id \in DOMAIN servers[h].users
                                /\ ClassOf(servers[h].users[id].partition) = c
         THEN FloatAdd(SumShares(h, r, c, ids, k - 1),
                       servers[h].users[CHOOSE id \in ids[k] : TRUE][r])
         ELSE SumShares(h, r, c, ids, k - 1)

\* C10: after any prefix of a job feed with distinct job ids and no hostname
\* named twice by a job, each accumulator usage[r][c] of each node is the sum
\* of the r-shares of the jobs of the node's jobs map whose partition is of
\* class c (a float sum, taken in the order of the jobs map).
C10_AccumulatorsMatchJobsMap ==
    (JobIdsDistinct /\ NoHostNamedTwice) =>
        \A ids \in {JobIdsTo(Len(consumed))} :
        \A h \in DOMAIN servers : \A r \in ResourceNames : \A c \in PartitionNames :
            servers[h].usage[r][c] = SumShares(h, r, c, ids, Len(consumed))

\* n01 holds a default-class and a priority-class job, each in its own
\* accumulator
C10_Witness ==
    /\ consumed = <<JobTwoNodes, JobPriority>>
    /\ JobIdsDistinct /\ NoHostNamedTwice
    /\ HostN01 \in DOMAIN servers
    /\ DOMAIN servers[HostN01].users = {<<"1">>, <<"2">>}
    /\ servers[HostN01].usage["cpu"]["default"] = FloatOfInt(2)
    /\ servers[HostN01].usage["cpu"]["priority"] = FloatOfInt(1)
    /\ servers[HostN01].usage["mem"]["priority"] = FloatOfInt(2)

====
